---- MODULE Spec2Model ----
(***************************************************************************)
(* The gRPC service host of grpc_core/servers/manager.py (class Server)    *)
(* and its owner, the lifespan context manager of main.py.                 *)
(*                                                                         *)
(* Spec     the Server class driven by arbitrary callers: any sequence of  *)
(*          Server(), register(), run(), stop() calls, task cancellation   *)
(*          and inbound RPC traffic.                                       *)
(* SpecApp  the program as main.py drives it: lifespan constructs the      *)
(*          host, spawns run() as a task, yields, and on exit stops the    *)
(*          host, cancels the task and awaits it.                          *)
(*                                                                         *)
(* grpc.aio.Server is a library object; its status machine                 *)
(* (READY, RUNNING, STOPPED), its handler list and its first-match         *)
(* handler lookup are modelled at the calls the source makes on it.        *)
(***************************************************************************)
EXTENDS Integers, Sequences, FiniteSets

\* ---------------------------------------------------------------- bounds
MaxConstruct == 2
MaxRegister == 2
MaxTasks == 2
MaxCalls == 1
MaxRequests == 2

Objects == 1..MaxConstruct
Tasks == 1..MaxTasks
Calls == 1..MaxCalls

\* ------------------------------------------------------------- constants
\* settings.SECRET_KEY, the value AuthInterceptor is constructed with.
Secret == "s3cr3t"
\* What a call's metadata may carry; "none" is a call with no credential.
Credentials == {"none", "s3cr3t", "wrong"}

ReflectionServiceName == "grpc.reflection.v1alpha.ServerReflection"

\* The tuple of full names handed to reflection.enable_server_reflection.
SERVICE_NAMES_NoCheck ==
    << "OrderService", "EchoService", "Health", ReflectionServiceName >>
SERVICE_NAMES ==
    << "OrderService", "EchoService", "Health", "CheckStatusOrderService",
       ReflectionServiceName >>

\* The services register() adds, in the order of its add_*_to_server calls.
RegisteredServices ==
    << "OrderService", "EchoService", "Health", "CheckStatusOrderService" >>

\* interceptors=[AuthInterceptor(settings.SECRET_KEY)]
NoInterceptors == << >>
InstalledInterceptors == << "AuthInterceptor" >>

Range(s) == {s[i] : i \in 1..Len(s)}
Min(S) == CHOOSE x \in S : \A y \in S : x <= y

AllServiceNames == Range(SERVICE_NAMES) \cup Range(RegisteredServices)

VARIABLES
    instance,      \* Server._instance: 0 is None, else the object's id
    created,       \* objects super().__new__ has created
    initialized,   \* the objects that have the attribute "initialized"
    servers,       \* aio servers created by the initialisation body
    server,        \* self.server: id of the current aio server, 0 if unset
    status,        \* each aio server's status
    bound,         \* the aio servers whose add_insecure_port succeeded
    listening,     \* the aio servers accepting connections
    interceptors,  \* self.server's interceptor chain
    reflection,    \* the names reflection advertises on self.server
    reflectCount,  \* calls of reflection.enable_server_reflection
    handlers,      \* self.server's handler list: [name, impl] in add order
    registerCalls, \* direct register() calls made
    addressInUse,  \* another process holds SERVER_ADDRESS
    pc,            \* each run() task's position
    err,           \* each run() task's exception, "none" if none
    calls,         \* each inbound call: [st, cred, via], via the chain it met
    reached,       \* the calls that reached a handler
    app,           \* the lifespan's position
    exitAt,        \* the run() task's position when the lifespan exit began
    served,        \* HTTP requests the application has answered
    ownerStops,    \* server.stop() calls the lifespan has made
    bodyExc,       \* the lifespan body was left by an exception
    last           \* the step just taken: [op, pre, raised, arg]

vars == << instance, created, initialized, servers, server, status,
           bound, listening, interceptors, reflection, reflectCount, handlers,
           registerCalls, addressInUse, pc, err, calls, reached, app, exitAt,
           served, ownerStops, bodyExc, last >>

hostVars == << instance, created, initialized, servers, server,
               interceptors, reflection, reflectCount >>
taskVars == << pc, err >>
callVars == << calls, reached >>
appVars == << app, exitAt, served, ownerStops, bodyExc >>

\* ------------------------------------------------------ the host's state
\* Unbound -> Bound -> Running -> Stopped, read off the instance and the
\* status of its aio server.
HostState ==
    IF instance = 0 \/ instance \notin initialized THEN "Unbound"
    ELSE CASE status[server] = "READY" -> "Bound"
           [] status[server] = "RUNNING" -> "Running"
           [] OTHER -> "Stopped"

Finished == {"done", "failed", "cancelled"}
InFlight == {c \in Calls : calls[c].st = "inflight"}

Step(op, raised, arg) ==
    [op |-> op, pre |-> HostState, raised |-> raised, arg |-> arg]

Init ==
    /\ instance = 0
    /\ created = 0
    /\ initialized = {}
    /\ servers = 0
    /\ server = 0
    /\ status = [s \in Objects |-> "NONE"]
    /\ bound = {}
    /\ listening = {}
    /\ interceptors = << >>
    /\ reflection = {}
    /\ reflectCount = 0
    /\ handlers = << >>
    /\ registerCalls = 0
    /\ addressInUse \in BOOLEAN
    /\ pc = [t \in Tasks |-> "idle"]
    /\ err = [t \in Tasks |-> "none"]
    /\ calls = [c \in Calls |-> [st |-> "none", cred |-> "none", via |-> << >>]]
    /\ reached = {}
    /\ app = "init"
    /\ exitAt = "none"
    /\ served = 0
    /\ ownerStops = 0
    /\ bodyExc = FALSE
    /\ last = [op |-> "init", pre |-> "Unbound", raised |-> FALSE, arg |-> 0]

\* ------------------------------------------------ Server.__new__/__init__
\* __new__: a new object only while cls._instance is unset.
NewAlways(inst, n) == n + 1
New(inst, n) == IF inst = 0 THEN n + 1 ELSE inst

\* server.add_insecure_port(SERVER_ADDRESS): raises when the address cannot
\* be bound; the source does not look at the port number it returns.
PortBindSilent(inUse) == FALSE
PortBindRaises(inUse) == inUse

\* self.initialized = True is the last statement of the body: it is reached
\* only when nothing before it raised.
MarksInitializedFirst(raises) == TRUE
MarksInitialized(raises) == ~raises

\* Server(): __new__ then __init__. The initialisation body runs when the
\* object has no attribute "initialized"; the attribute is set last.
Construct ==
    LET self == New(instance, created) IN
    /\ instance' = self
    /\ created' = IF self > created THEN self ELSE created
    /\ IF self \in initialized
       THEN /\ UNCHANGED << initialized, servers, server, status, bound,
                            interceptors, reflection, reflectCount, handlers >>
            /\ last' = Step("Server", FALSE, addressInUse)
       ELSE LET s == servers + 1
                raises == PortBindRaises(addressInUse) IN
            /\ servers' = s
            /\ server' = s
            /\ status' = [status EXCEPT ![s] = "READY"]
            /\ interceptors' = InstalledInterceptors
            /\ handlers' = << >>
            /\ bound' = IF addressInUse THEN bound ELSE bound \cup {s}
            /\ IF raises
               THEN UNCHANGED << reflection, reflectCount >>
               ELSE /\ reflection' = Range(SERVICE_NAMES)
                    /\ reflectCount' = reflectCount + 1
            /\ initialized' = IF MarksInitialized(raises)
                              THEN initialized \cup {self} ELSE initialized
            /\ last' = Step("Server", raises, addressInUse)

Server ==
    /\ IF New(instance, created) \in initialized THEN TRUE
       ELSE servers < MaxConstruct
    /\ Construct
    /\ UNCHANGED << listening, registerCalls, addressInUse >>
    /\ UNCHANGED << taskVars, callVars, appVars >>

\* Another process takes or releases SERVER_ADDRESS. The address is looked
\* at by add_insecure_port alone, so only the changes before the instance
\* is initialised matter; it can be held by another process only while no
\* server of this process holds it.
AddressChange ==
    /\ bound = {}
    /\ HostState = "Unbound"
    /\ addressInUse' = ~addressInUse
    /\ UNCHANGED << hostVars, status, bound, listening, handlers, registerCalls,
                    last >>
    /\ UNCHANGED << taskVars, callVars, appVars >>

\* -------------------------------------------------------- Server.register
\* The four add_*Servicer_to_server calls: each appends a fresh
\* implementation instance to the aio server's handler list.
RegisterNothing(h) == h
RegisterPrepend(h) ==
    [i \in 1..Len(RegisteredServices) |->
        [name |-> RegisteredServices[i], impl |-> Len(h) + i]] \o h
Register(h) ==
    h \o [i \in 1..Len(RegisteredServices) |->
            [name |-> RegisteredServices[i], impl |-> Len(h) + i]]

\* The aio server serves a method with the first handler of its list that
\* knows the service; 0 when none does.
Find(h, n) ==
    LET idx == {i \in 1..Len(h) : h[i].name = n} IN
    IF idx = {} THEN 0 ELSE h[Min(idx)].impl

\* The dispatchable set: each service name with the implementation serving it.
DispatchTable(h) == [n \in AllServiceNames |-> Find(h, n)]

register ==
    /\ HostState # "Unbound"
    /\ registerCalls < MaxRegister
    /\ registerCalls' = registerCalls + 1
    /\ handlers' = Register(handlers)
    /\ last' = Step("register", FALSE, DispatchTable(handlers))
    /\ UNCHANGED << hostVars, status, bound, listening, addressInUse >>
    /\ UNCHANGED << taskVars, callVars, appVars >>

\* ------------------------------------------------------------- Server.run
\* aio server.start(): READY becomes RUNNING, RUNNING returns at once, any
\* other status raises.
ServerStartAgain(st) == [status |-> "RUNNING", raised |-> FALSE]
ServerStart(st) ==
    CASE st = "READY" -> [status |-> "RUNNING", raised |-> FALSE]
      [] st = "RUNNING" -> [status |-> "RUNNING", raised |-> FALSE]
      [] OTHER -> [status |-> st, raised |-> TRUE]

\* A caller awaits run(): the coroutine runs up to its first suspension,
\* the await of Order.create_table.
run(t) ==
    /\ HostState # "Unbound"
    /\ pc[t] = "idle"
    /\ \A u \in Tasks : u < t => pc[u] # "idle"
    /\ pc' = [pc EXCEPT ![t] = "create_table"]
    /\ last' = Step("run", FALSE, t)
    /\ UNCHANGED << hostVars, status, bound, listening, handlers,
                    registerCalls, addressInUse, err >>
    /\ UNCHANGED << callVars, appVars >>

\* The task created by asyncio.create_task(server.run()) gets its first turn.
TaskStart(t) ==
    /\ pc[t] = "created"
    /\ pc' = [pc EXCEPT ![t] = "create_table"]
    /\ last' = Step("run", FALSE, t)
    /\ UNCHANGED << hostVars, status, bound, listening, handlers,
                    registerCalls, addressInUse, err >>
    /\ UNCHANGED << callVars, appVars >>

\* Order.create_table raises: run() ends with that exception.
RunPrerequisiteFails(t) ==
    /\ pc[t] = "create_table"
    /\ pc' = [pc EXCEPT ![t] = "failed"]
    /\ err' = [err EXCEPT ![t] = "prerequisite"]
    /\ last' = Step("create_table", TRUE, t)
    /\ UNCHANGED << hostVars, status, bound, listening, handlers,
                    registerCalls, addressInUse >>
    /\ UNCHANGED << callVars, appVars >>

\* Order.create_table returns: register(), then server.start() up to its
\* suspension (or its exception). Nothing else runs in between.
RunRegisterStart(t) ==
    LET r == ServerStart(status[server]) IN
    /\ pc[t] = "create_table"
    /\ handlers' = Register(handlers)
    /\ status' = [status EXCEPT ![server] = r.status]
    /\ listening' = IF r.status = "RUNNING" THEN listening \cup {server}
                    ELSE listening
    /\ pc' = [pc EXCEPT ![t] = IF r.raised THEN "failed" ELSE "start"]
    /\ err' = [err EXCEPT ![t] = IF r.raised THEN "UsageError" ELSE @]
    /\ last' = Step("start", r.raised, DispatchTable(handlers))
    /\ UNCHANGED << hostVars, bound, registerCalls, addressInUse >>
    /\ UNCHANGED << callVars, appVars >>

\* server.start() returns: the address is logged and run() suspends in
\* wait_for_termination.
RunStarted(t) ==
    /\ pc[t] = "start"
    /\ pc' = [pc EXCEPT ![t] = "wait"]
    /\ last' = Step("wait_for_termination", FALSE, t)
    /\ UNCHANGED << hostVars, status, bound, listening, handlers,
                    registerCalls, addressInUse, err >>
    /\ UNCHANGED << callVars, appVars >>

\* wait_for_termination returns once the aio server has shut down.
TerminationObservedEarly(st) == st \in {"RUNNING", "STOPPED"}
TerminationObserved(st) == st = "STOPPED"

RunTerminated(t) ==
    /\ pc[t] = "wait"
    /\ TerminationObserved(status[server])
    /\ pc' = [pc EXCEPT ![t] = "done"]
    /\ last' = Step("run_returns", FALSE, t)
    /\ UNCHANGED << hostVars, status, bound, listening, handlers,
                    registerCalls, addressInUse, err >>
    /\ UNCHANGED << callVars, appVars >>

\* task.cancel(): CancelledError is raised at the await run() is suspended
\* in (or before its first turn); run() catches nothing. A finished task is
\* left as it is.
Cancelled(p) == IF p \in Finished \/ p = "idle" THEN p ELSE "cancelled"

\* run() has no handler around its awaits: the CancelledError leaves it
\* without a call to stop(), and the aio server keeps its status.
CancelStops(st) == IF st = "RUNNING" THEN "STOPPED" ELSE st
CancelStatus(st) == st

TaskCancel(t) ==
    LET new == CancelStatus(status[server]) IN
    /\ pc[t] \in {"create_table", "start", "wait"}
    /\ pc' = [pc EXCEPT ![t] = Cancelled(pc[t])]
    /\ status' = [status EXCEPT ![server] = new]
    /\ listening' = IF new = "RUNNING" THEN listening ELSE listening \ {server}
    /\ bound' = IF new = "STOPPED" THEN bound \ {server} ELSE bound
    /\ last' = Step("cancel", FALSE, [task |-> t, at |-> pc[t]])
    /\ UNCHANGED << hostVars, handlers, registerCalls, addressInUse, err >>
    /\ UNCHANGED << callVars, appVars >>

\* ------------------------------------------------------------ Server.stop
\* aio server.stop(grace=False): a RUNNING server shuts down and gives up
\* its port; a server that was never started or has already stopped returns
\* at once.
ServerStopAlways(st) == "STOPPED"
ServerStopNothing(st) == st
ServerStop(st) == IF st = "RUNNING" THEN "STOPPED" ELSE st

\* grace=False: there is no time for a call to finish; what is in flight
\* is cancelled.
StopOutcomeDrained(st) == IF st = "inflight" THEN "completed" ELSE st
StopOutcome(st) == IF st = "inflight" THEN "aborted" ELSE st

StopBody ==
    LET st == status[server]
        new == ServerStop(st)
        down == st = "RUNNING" /\ new = "STOPPED" IN
    /\ status' = [status EXCEPT ![server] = new]
    /\ listening' = IF down THEN listening \ {server} ELSE listening
    /\ bound' = IF down THEN bound \ {server} ELSE bound
    /\ calls' = IF down
                THEN [c \in Calls |-> [calls[c] EXCEPT !.st = StopOutcome(@)]]
                ELSE calls
    /\ last' = Step("stop", FALSE, InFlight)

stop ==
    /\ HostState # "Unbound"
    /\ StopBody
    /\ UNCHANGED << hostVars, handlers, registerCalls, addressInUse, reached >>
    /\ UNCHANGED << taskVars, appVars >>

\* ------------------------------------------------------------ inbound RPCs
\* AuthInterceptor: the call goes on only with the configured secret.
AuthInterceptor(cred) == cred = Secret

PassesChain(chain, cred) ==
    \A i \in 1..Len(chain) : chain[i] = "AuthInterceptor" => AuthInterceptor(cred)

\* A call to EchoService arrives on the listening server: the interceptor
\* chain first, then the handler lookup.
CallArrive(c, cred) ==
    /\ server # 0
    /\ server \in listening
    /\ calls[c].st = "none"
    /\ \A b \in Calls : b < c => calls[b].st # "none"
    /\ LET ok == PassesChain(interceptors, cred)
           impl == Find(handlers, "EchoService") IN
       /\ calls' = [calls EXCEPT ![c] =
                       [st |-> IF ~ok THEN "unauthenticated"
                               ELSE IF impl = 0 THEN "unimplemented"
                               ELSE "inflight",
                        cred |-> cred,
                        via |-> interceptors]]
       /\ reached' = IF ok /\ impl # 0 THEN reached \cup {c} ELSE reached
    /\ UNCHANGED << hostVars, status, bound, listening, handlers,
                    registerCalls, addressInUse, last >>
    /\ UNCHANGED << taskVars, appVars >>

\* The handler returns its reply.
CallComplete(c) ==
    /\ calls[c].st = "inflight"
    /\ calls' = [calls EXCEPT ![c].st = "completed"]
    /\ UNCHANGED << hostVars, status, bound, listening, handlers,
                    registerCalls, addressInUse, last, reached >>
    /\ UNCHANGED << taskVars, appVars >>

\* ------------------------------------------------------- main.py lifespan
\* server = Server(); task = asyncio.create_task(server.run()); yield.
\* An exception of Server() leaves the lifespan before the yield.
\* The yield follows create_task at once: the task has not had a turn yet.
TaskAtYieldAwaited == "wait"
TaskAtYield == "created"

LifespanEnter ==
    /\ app = "init"
    /\ Construct
    /\ app' = IF last'.raised THEN "aborted" ELSE "serving"
    /\ pc' = IF last'.raised THEN pc ELSE [pc EXCEPT ![1] = TaskAtYield]
    /\ UNCHANGED << listening, registerCalls, addressInUse, err, exitAt,
                    served, ownerStops, bodyExc >>
    /\ UNCHANGED callVars

\* finally: await server.stop(). On a server that is not RUNNING the aio
\* stop returns without suspending, so task.cancel() follows in the same
\* turn of the event loop; on a RUNNING server stop suspends and the task
\* may take turns before the cancel. The finally clause runs whether the
\* body ended normally or by an exception.
LifespanExit(exc) ==
    /\ app = "serving"
    /\ exitAt' = pc[1]
    /\ bodyExc' = exc
    /\ ownerStops' = ownerStops + 1
    /\ StopBody
    /\ IF status[server] = "RUNNING"
       THEN app' = "stopped" /\ pc' = pc
       ELSE app' = "await" /\ pc' = [pc EXCEPT ![1] = Cancelled(@)]
    /\ UNCHANGED << hostVars, handlers, registerCalls, addressInUse, reached,
                    err, served >>

\* _ = task.cancel()
LifespanCancel ==
    /\ app = "stopped"
    /\ app' = "await"
    /\ pc' = [pc EXCEPT ![1] = Cancelled(@)]
    /\ last' = Step("cancel", FALSE, [task |-> 1, at |-> pc[1]])
    /\ UNCHANGED << hostVars, status, bound, listening, handlers,
                    registerCalls, addressInUse, err, exitAt, served,
                    ownerStops, bodyExc >>
    /\ UNCHANGED callVars

\* with suppress(asyncio.CancelledError): await task. Any other exception
\* of the task is raised out of the lifespan.
AwaitSuppressesAll(p) == FALSE
AwaitRaises(p) == p = "failed"

LifespanAwait ==
    /\ app = "await"
    /\ pc[1] \in Finished
    /\ app' = "exited"
    /\ last' = Step("await_task", AwaitRaises(pc[1]), err[1])
    /\ UNCHANGED << hostVars, status, bound, listening, handlers,
                    registerCalls, addressInUse, exitAt, served,
                    ownerStops, bodyExc >>
    /\ UNCHANGED << taskVars, callVars >>

\* Between the lifespan's yield and its exit the FastAPI application answers
\* HTTP requests, whatever the run() task is doing.
HttpRequest ==
    /\ app = "serving"
    /\ served < MaxRequests
    /\ served' = served + 1
    /\ UNCHANGED << hostVars, status, bound, listening, handlers,
                    registerCalls, addressInUse, app, exitAt, ownerStops,
                    bodyExc, last >>
    /\ UNCHANGED << taskVars, callVars >>

\* --------------------------------------------------------- specifications
Next ==
    \/ Server
    \/ AddressChange
    \/ register
    \/ stop
    \/ \E t \in Tasks : run(t)
    \/ \E t \in Tasks : RunPrerequisiteFails(t)
    \/ \E t \in Tasks : RunRegisterStart(t)
    \/ \E t \in Tasks : RunStarted(t)
    \/ \E t \in Tasks : RunTerminated(t)
    \/ \E t \in Tasks : TaskCancel(t)
    \/ \E c \in Calls, cred \in Credentials : CallArrive(c, cred)
    \/ \E c \in Calls : CallComplete(c)

Spec == Init /\ [][Next]_vars

\* The host's start/stop life alone (construction, run() tasks, stop(),
\* cancellation), under the event loop's scheduling: a task whose awaited
\* future is done gets its turn, so a run() whose wait_for_termination can
\* return does return.
NextFair ==
    \/ Server
    \/ AddressChange
    \/ stop
    \/ \E t \in Tasks : run(t)
    \/ \E t \in Tasks : RunPrerequisiteFails(t)
    \/ \E t \in Tasks : RunRegisterStart(t)
    \/ \E t \in Tasks : RunStarted(t)
    \/ \E t \in Tasks : RunTerminated(t)
    \/ \E t \in Tasks : TaskCancel(t)

SpecFair ==
    /\ Init
    /\ [][NextFair]_vars
    /\ \A t \in Tasks : WF_vars(RunTerminated(t))

NextApp ==
    \/ LifespanEnter
    \/ \E exc \in BOOLEAN : LifespanExit(exc)
    \/ LifespanCancel
    \/ LifespanAwait
    \/ HttpRequest
    \/ AddressChange
    \/ \E t \in Tasks : TaskStart(t)
    \/ \E t \in Tasks : RunPrerequisiteFails(t)
    \/ \E t \in Tasks : RunRegisterStart(t)
    \/ \E t \in Tasks : RunStarted(t)
    \/ \E t \in Tasks : RunTerminated(t)
    \/ \E c \in Calls, cred \in Credentials : CallArrive(c, cred)
    \/ \E c \in Calls : CallComplete(c)

SpecApp == Init /\ [][NextApp]_vars

\* ------------------------------------------------------------- properties
Running == {s \in Objects : status[s] = "RUNNING"}
Names(h) == {h[i].name : i \in 1..Len(h)}

\* C1, as stated: over any sequence of Server() calls one object is created
\* and the initialisation body (new aio server, interceptor, port binding,
\* reflection) is executed once; at most one server is bound and at most one
\* is running.
C1_InitBodyExecutesOnce ==
    /\ created <= 1
    /\ servers <= 1
    /\ Cardinality(bound) <= 1
    /\ Cardinality(Running) <= 1

\* C1, amended: every Server() call yields the one object, and the
\* initialisation body runs to completion at most once (a run that raised is
\* repeated by the next call, on the same object); at most one aio server is
\* bound to the address, at most one is running, and none but the current
\* self.server is ever bound, listening or running.
C1_SingleInstance ==
    /\ created <= 1
    /\ instance \in {0, 1}
    /\ Cardinality(initialized) <= 1
    /\ reflectCount = Cardinality(initialized)
    /\ Cardinality(bound) <= 1
    /\ Cardinality(Running) <= 1
    /\ bound \cup listening \cup Running \subseteq {server}

\* A failed construction, a successful one, and a further Server() call that
\* found the instance initialised.
C1_Witness ==
    /\ last.op = "Server"
    /\ last.pre # "Unbound"
    /\ servers = 2
    /\ instance \in initialized

\* C2: a call with no credential or a credential other than the secret ends
\* Unauthenticated and never reaches a handler; a call with the secret
\* reaches its handler.
C2_AuthGate ==
    \A c \in Calls :
        calls[c].st # "none" =>
            IF calls[c].cred = Secret
            THEN c \in reached /\ calls[c].st \in {"inflight", "completed", "aborted"}
            ELSE c \notin reached /\ calls[c].st = "unauthenticated"

C2_Witness ==
    \E c \in Calls : calls[c].st = "unauthenticated" /\ calls[c].cred = "wrong"

\* C3: a register() on a server that already has the services bound (directly
\* or through run()) leaves the dispatchable set as it was: every service name
\* is served by the same implementation as before.
C3_RegisterIdempotent ==
    (/\ last.op \in {"register", "start"}
     /\ \E n \in AllServiceNames : last.arg[n] # 0)
        => DispatchTable(handlers) = last.arg

\* register() called twice in a row.
C3_Witness ==
    /\ last.op = "register"
    /\ registerCalls = 2
    /\ Len(handlers) = 2 * Len(RegisteredServices)

\* C4: the names given to reflection are exactly the names of the services
\* register() binds (the three business services and Health) and reflection's
\* own name.
C4_ReflectionNames ==
    HostState # "Unbound" =>
        /\ reflection = Names(Register(handlers)) \cup {ReflectionServiceName}
        /\ handlers # << >> =>
              reflection = Names(handlers) \cup {ReflectionServiceName}
        /\ {"OrderService", "EchoService", "CheckStatusOrderService", "Health"}
              = reflection \ {ReflectionServiceName}

C4_Witness ==
    /\ HostState = "Running"
    /\ Len(handlers) = Len(RegisteredServices)

\* C5: stop() on a host that was never run, and stop() on a stopped host,
\* raise nothing and leave the host in the state it was in.
C5_StopIsNoOp ==
    (last.op = "stop" /\ last.pre \in {"Bound", "Stopped"})
        => /\ ~last.raised
           /\ HostState = last.pre
           /\ listening = {}
           /\ last.pre = "Bound" => server \in bound

C5_Witness ==
    /\ last.op = "stop"
    /\ last.pre = "Bound"
    /\ HostState = "Bound"

\* C6: stop() on a Running host raises nothing and leaves the host Stopped,
\* not listening, its port given up, and every call that was in flight
\* aborted, none of them completed.
C6_StopAbortsInFlight ==
    (last.op = "stop" /\ last.pre = "Running")
        => /\ ~last.raised
           /\ HostState = "Stopped"
           /\ listening = {}
           /\ bound = {}
           /\ InFlight = {}
           /\ \A c \in last.arg : calls[c].st = "aborted"

C6_Witness ==
    /\ last.op = "stop"
    /\ last.pre = "Running"
    /\ last.arg # {}

\* C7: every step leaves the host state as it is or moves it one place along
\* Unbound -> Bound -> Running -> Stopped; a Stopped host stays Stopped.
C7_Transition ==
    \/ HostState' = HostState
    \/ HostState = "Unbound" /\ HostState' = "Bound"
    \/ HostState = "Bound" /\ HostState' = "Running"
    \/ HostState = "Running" /\ HostState' = "Stopped"

C7_StateMachine == [][C7_Transition]_vars

\* run() on a Stopped host: server.start() raised.
C7_Witness ==
    /\ last.op = "start"
    /\ last.pre = "Stopped"
    /\ last.raised
    /\ HostState = "Stopped"

\* C8: once the lifespan's exit (stop, cancel, await) is over, no server is
\* listening and the run() task has finished, wherever run() was when the
\* exit began.
C8_ShutdownReleases ==
    app = "exited" => listening = {} /\ pc[1] \in Finished

\* The exit began while run() awaited the prerequisite.
C8_Witness ==
    /\ app = "exited"
    /\ exitAt = "create_table"

\* C9, as stated: when Order.create_table raises inside run(), nothing is
\* registered, the listener is never started, and the owner aborts its
\* startup instead of serving.
C9_PrerequisiteFailureAbortsStartup ==
    (pc[1] = "failed" /\ err[1] = "prerequisite")
        => /\ handlers = << >>
           /\ listening = {}
           /\ app = "aborted"

\* C10, as stated: once a construction has failed on an address in use, the
\* instance never becomes initialised and never runs.
C10_FailedInstanceNeverBound ==
    servers > reflectCount => HostState = "Unbound"

\* C10, amended: a Server() call made while the address is in use raises and
\* leaves the instance uninitialised, its server unbound; an uninitialised
\* instance has no server listening or running. (A later Server() call runs
\* the initialisation again and can bind the instance.)
C10_BindFailureRaises ==
    /\ (last.op = "Server" /\ last.pre = "Unbound" /\ last.arg)
          => /\ last.raised
             /\ HostState = "Unbound"
             /\ server \notin bound
    /\ HostState = "Unbound" => listening = {} /\ Running = {}

C10_Witness ==
    /\ last.op = "Server"
    /\ last.raised
    /\ HostState = "Unbound"
    /\ server # 0

\* C11, as stated: reflection is enabled once, after register() has bound
\* the services and before the listener accepts traffic; in no state does
\* reflection advertise a service that is not registered.
C11_ReflectionAfterRegistration ==
    /\ reflectCount <= 1
    /\ listening # {} => reflectCount = 1
    /\ reflection \ {ReflectionServiceName} \subseteq Names(handlers)

\* C12: in run() the services are registered before server.start() is
\* called, and start() before the suspension in wait_for_termination:
\* whenever a server is listening, and whenever a run() has got as far as
\* start(), the interceptor chain is installed and Order, Echo, Health and
\* CheckStatusOrder are registered; a run() whose prerequisite failed has
\* started nothing.
C12_RegisteredBeforeListening ==
    /\ listening # {} =>
          /\ interceptors = << "AuthInterceptor" >>
          /\ {"OrderService", "EchoService", "Health",
              "CheckStatusOrderService"} \subseteq Names(handlers)
    /\ \A t \in Tasks :
          /\ pc[t] \in {"start", "wait", "done"} =>
                Range(RegisteredServices) \subseteq Names(handlers)
          /\ pc[t] = "wait" => HostState \in {"Running", "Stopped"}
    /\ (last.op = "create_table" /\ last.pre = "Bound") => listening = {}

C12_Witness ==
    /\ listening # {}
    /\ pc[1] = "wait"
    /\ Len(handlers) = Len(RegisteredServices)

\* C14, as stated: the server holds at most one binding for each service
\* full name, however often register() is called.
C14_OneBindingPerName ==
    \A n \in AllServiceNames :
        Cardinality({i \in 1..Len(handlers) : handlers[i].name = n}) <= 1

C15_StopUnblocksRun ==
    /\ \A t \in Tasks :
          (pc[t] = "wait" /\ HostState = "Stopped")
              ~> (pc[t] \in {"done", "cancelled"})
    /\ [][\A t \in Tasks :
             (pc[t] # "done" /\ pc'[t] = "done") => HostState = "Stopped"]_vars

\* run() has returned after a stop().
C15_Witness ==
    /\ last.op = "run_returns"
    /\ pc[1] = "done"
    /\ HostState = "Stopped"

\* C16: whichever way the lifespan body is left, the owner has called stop()
\* exactly once by the time it cancels the run() task and by the time it
\* awaits it, and never before the exit; the task is never cancelled with
\* the host still running.
C16_StopBeforeCancelAndAwait ==
    /\ app \in {"init", "serving", "aborted"} => ownerStops = 0
    /\ app \in {"stopped", "await", "exited"} => ownerStops = 1
    /\ app \in {"await", "exited"} => HostState # "Running" /\ listening = {}
    /\ pc[1] = "cancelled" => ownerStops = 1 /\ HostState # "Running"

\* The body was left by an exception; stop, cancel and await have run.
C16_Witness ==
    /\ app = "exited"
    /\ bodyExc
    /\ ownerStops = 1
    /\ pc[1] = "cancelled"
    /\ exitAt = "wait"

\* C18: a run() task that ended with an error other than CancelledError
\* leaves the application serving; at the exit the owner calls stop() and
\* the await of the task raises that error. A cancelled or returned task
\* raises nothing there.
C18_TaskErrorSurfacesAtShutdown ==
    /\ pc[1] = "failed" => app \in {"serving", "stopped", "await", "exited"}
    /\ app = "exited" =>
          /\ last.op = "await_task"
          /\ ownerStops = 1
          /\ pc[1] = "failed" =>
                last.raised /\ last.arg = err[1] /\ err[1] # "none"
          /\ pc[1] \in {"cancelled", "done"} => ~last.raised

C18_Witness ==
    /\ app = "exited"
    /\ pc[1] = "failed"
    /\ exitAt = "failed"
    /\ last.raised
    /\ served > 0

\* C19: the lifespan yields as soon as the task is created: right after it
\* the application serves while the task has not had a turn, and as long as
\* run() has not got past the prerequisite the host is Bound, with nothing
\* registered and no listener.
C19_YieldBeforeRunning ==
    /\ (last.op = "Server" /\ app = "serving") => pc[1] = "created"
    /\ (app = "serving" /\ pc[1] \in {"created", "create_table"}) =>
          /\ HostState = "Bound"
          /\ handlers = << >>
          /\ listening = {}

\* A request answered while run() still awaits the prerequisite.
C19_Witness ==
    /\ app = "serving"
    /\ served > 0
    /\ pc[1] = "create_table"
    /\ HostState = "Bound"
    /\ handlers = << >>

\* C17: a cancel of the task suspended in wait_for_termination, with no
\* stop(), ends the task and leaves the host Running, its server listening
\* and its port bound.
C17_CancelLeavesListener ==
    (last.op = "cancel" /\ last.pre = "Running" /\ last.arg.at = "wait")
        => /\ pc[last.arg.task] = "cancelled"
           /\ HostState = "Running"
           /\ server \in listening
           /\ server \in bound

C17_Witness ==
    /\ last.op = "cancel"
    /\ last.arg.at = "wait"
    /\ last.pre = "Running"
    /\ pc[1] = "cancelled"
    /\ server \in listening

\* C20: a Server() call whose initialisation raised leaves _instance set and
\* the instance without "initialized"; the next Server() call works on the
\* same object and runs the whole body again: a new aio server, a new port
\* binding, reflection enabled, and "initialized" set at the end.
C20_Reinitialised ==
    /\ instance # 0 /\ instance \notin initialized
    /\ instance' \in initialized'

C20_FailedInitIsRepeated ==
    /\ [](/\ created <= 1
          /\ (last.op = "Server" /\ last.raised) =>
                /\ instance = 1
                /\ instance \notin initialized
                /\ server = servers
                /\ server \notin bound
          /\ (instance # 0 /\ instance \notin initialized) =>
                servers >= 1 /\ reflectCount = 0)
    /\ [][C20_Reinitialised =>
             /\ instance' = instance
             /\ servers' = servers + 1
             /\ server' = servers'
             /\ server' # server
             /\ server' \in bound'
             /\ status'[server'] = "READY"
             /\ reflectCount' = reflectCount + 1]_vars

\* The second Server() call has completed what the first could not.
C20_Witness ==
    /\ last.op = "Server"
    /\ last.pre = "Unbound"
    /\ ~last.raised
    /\ servers = 2
    /\ instance \in initialized

====
